---- MODULE Spec2Model ----
(***************************************************************************)
(* Kiosk update backend: the version-storage directory tree, the           *)
(* GET /latest-version handler (get_latest_version) and the                *)
(* POST /kiosk-version handler (create_kiosk_version) of src/src/main.rs,  *)
(* with the error-to-response mapping of src/src/error.rs.                 *)
(***************************************************************************)
EXTENDS Integers, Sequences, FiniteSets, TLC

VARIABLES
    rootMode,   \* state of KIOSK_DIRECTORY: "ok", "missing", "unreadable", "unsearchable"
    hasBirth,   \* TRUE iff the filesystem reports creation times (metadata.created() is Ok)
    slashDirs,  \* TRUE iff "/" holds (empty) folders named after the four platforms
    tree,       \* entry name -> Absent or the entry found under KIOSK_DIRECTORY
    now,        \* the filesystem clock, in seconds since the epoch
    reqs,       \* create_kiosk_version requests: position, argument, result
    resp        \* response of the most recent get_latest_version call

vars == <<rootMode, hasBirth, slashDirs, tree, now, reqs, resp>>

fsVars == <<rootMode, hasBirth, slashDirs, tree, now>>

\* Largest clock value of the model.
MaxTime == 2

Times == 1..MaxTime

\* Names an entry of KIOSK_DIRECTORY can have in the model.
Names == {"1.0.0", "1.1.0", "scratch"}

\* KIOSK_DOWNLOADABLE_URL, as configured.
kiosk_url == "https://kiosk.example"

\* Platforms::iter_mut: the order in which get_latest_version visits the platforms.
PlatformOrder == <<"linux_x86_64", "windows_x86_64", "darwin_x86_64", "darwin_aarch64">>

\* The platforms vector of create_kiosk_version, in its order.
CreateOrder == <<"windows_x86_64", "linux_x86_64", "darwin_x86_64", "darwin_aarch64">>

Platforms == {PlatformOrder[i] : i \in 1..Len(PlatformOrder)}

-----------------------------------------------------------------------------
(* The directory tree.                                                      *)

Absent == [kind |-> "absent"]

\* An entry of a platform folder. ext = "" is a name without extension;
\* named = FALSE is a name that is not valid UTF-8; utf8 = FALSE is a file
\* whose content is not valid UTF-8.
Entry(stem, ext, kind, text, utf8, named, t) ==
    [stem |-> stem, ext |-> ext, kind |-> kind, text |-> text, utf8 |-> utf8,
     named |-> named, time |-> t]

\* path.file_name().and_then(|s| s.to_str()).map_or("", ..) of an entry.
FileName(e) ==
    IF ~e.named THEN ""
    ELSE IF e.ext = "" THEN e.stem ELSE e.stem \o "." \o e.ext

Sig(t) == Entry("kiosk", "sig", "file", "SIGNATURE", TRUE, TRUE, t)
OldSig(t) == Entry("kiosk-old", "sig", "file", "OLD-SIGNATURE", TRUE, TRUE, t)
BadSig(t) == Entry("kiosk", "sig", "file", "", FALSE, TRUE, t)
Payload(t) == Entry("kiosk", "bin", "file", "", TRUE, TRUE, t)
OldPayload(t) == Entry("kiosk-old", "bin", "file", "", TRUE, TRUE, t)
OddPayload(t) == Entry("kiosk?", "bin", "file", "", TRUE, FALSE, t)
SubDir(t) == Entry("tmp", "", "dir", "", TRUE, TRUE, t)

\* A platform folder: "ok" (listable), "unreadable" or "absent".
PlatDir(state, entries) == [state |-> state, entries |-> entries]

EmptyPlat == PlatDir("ok", {})
NoPlat == PlatDir("absent", {})
FullPlat(t) == PlatDir("ok", {Sig(t), Payload(t)})

\* A further subfolder of a version folder and the folders made inside it;
\* NoExtra when the version folder holds none.
Extra(state, plats) == [state |-> state, plats |-> plats]

NoExtra == Extra("absent", {})

\* A version folder: creation time, modification time, platform folders.
VersionDir(b, m, plat) ==
    [kind |-> "dir", btime |-> b, mtime |-> m, plat |-> plat, extra |-> NoExtra]

\* A regular file directly under KIOSK_DIRECTORY.
RootFile(t) ==
    [kind |-> "file", btime |-> t, mtime |-> t, plat |-> [p \in Platforms |-> NoPlat],
     extra |-> NoExtra]

\* The folder layouts the model starts from; f is the time the files were written.
Shapes == {"skeleton", "complete", "half", "broken", "multi", "garbled", "odd"}

ShapePlat(shape, f) ==
    CASE shape = "skeleton" -> [p \in Platforms |-> EmptyPlat]
      [] shape = "complete" -> [p \in Platforms |-> FullPlat(f)]
      [] shape = "half" ->
            [p \in Platforms |->
                IF p \in {"linux_x86_64", "windows_x86_64"} THEN FullPlat(f)
                ELSE IF p = "darwin_x86_64" THEN PlatDir("ok", {Payload(f)})
                ELSE EmptyPlat]
      [] shape = "broken" ->
            [p \in Platforms |->
                IF p = "linux_x86_64" THEN FullPlat(f)
                ELSE IF p = "windows_x86_64" THEN PlatDir("unreadable", {Sig(f), Payload(f)})
                ELSE IF p = "darwin_x86_64" THEN NoPlat
                ELSE EmptyPlat]
      [] shape = "multi" ->
            [p \in Platforms |->
                IF p = "linux_x86_64"
                    THEN PlatDir("ok", {Sig(f), OldSig(f), Payload(f), OldPayload(f)})
                ELSE IF p = "windows_x86_64"
                    THEN PlatDir("ok", {Sig(f), Payload(f), SubDir(f)})
                ELSE FullPlat(f)]
      [] shape = "garbled" ->
            [p \in Platforms |->
                IF p = "darwin_aarch64" THEN PlatDir("ok", {BadSig(f), Payload(f)})
                ELSE FullPlat(f)]
      [] shape = "odd" ->
            [p \in Platforms |->
                IF p = "darwin_x86_64" THEN PlatDir("ok", {Sig(f), OddPayload(f)})
                ELSE FullPlat(f)]

\* What a name can stand for when the model starts.
InitEntries ==
    {Absent}
    \cup {RootFile(t) : t \in Times}
    \cup {VersionDir(t[1], t[2], ShapePlat(s, t[3])) :
            t \in {x \in Times \X Times \X Times : x[1] <= x[2] /\ x[2] <= x[3]},
            s \in Shapes}

\* KIOSK_DIRECTORY, as configured.
kiosk_directory == "/srv/kiosk"

\* entry.path().display() of an entry of KIOSK_DIRECTORY.
EntryPath(n) == kiosk_directory \o "/" \o n

\* The entries tokio::fs::read_dir(kiosk_directory) yields.
Present == {n \in Names : tree[n].kind # "absent"}

\* read_dir(kiosk_directory) succeeds iff the folder exists and may be read.
RootListable == rootMode \in {"ok", "unsearchable"}

\* The orders in which a directory's entries can be enumerated.
Perms(S) ==
    {s \in [1..Cardinality(S) -> S] : \A i, j \in 1..Cardinality(S) : i # j => s[i] # s[j]}

-----------------------------------------------------------------------------
(* error.rs                                                                 *)

NoBody == [kind |-> "empty"]

\* Mutant of FromIoError: the I/O error becomes NotFound.
FromIoErrorNotFound == "NotFound"

\* impl From<std::io::Error> for APIError.
FromIoError == "Internal"

\* Mutant of IntoResponse: FolderExist is answered like Internal.
IntoResponseSwallowed(e) ==
    IF e = "NotFound" THEN [status |-> 404, error |-> e, body |-> NoBody]
    ELSE [status |-> 500, error |-> "Internal", body |-> NoBody]

\* impl IntoResponse for APIError.
IntoResponse(e) ==
    CASE e = "Internal" -> [status |-> 500, error |-> e, body |-> NoBody]
      [] e = "NotFound" -> [status |-> 404, error |-> e, body |-> NoBody]
      [] e = "FolderExist" ->
            [status |-> 422, error |-> e,
             body |-> [kind |-> "kiosk_version_error", code |-> "FolderExist", data |-> "null"]]

\* A handler's Ok value as a response.
OkResponse(body) == [status |-> 200, error |-> "", body |-> body]

-----------------------------------------------------------------------------
(* get_latest_version                                                       *)

\* chrono's to_rfc3339 of a time within the first minute after the epoch.
Rfc3339(t) ==
    "1970-01-01T00:00:" \o (IF t < 10 THEN "0" ELSE "") \o ToString(t) \o "+00:00"

\* The locals of the folder loop before its first iteration.
ScanStart ==
    [found |-> FALSE, folder |-> "", time |-> 0, name |-> "", modified_date |-> 0,
     err |-> FALSE]

\* One iteration of the folder loop, on the entry named n. Under a root that
\* may be listed but not searched, file_type() comes with the listing and
\* metadata() fails.
ScanRootStep(st, n) ==
    IF tree[n].kind # "dir" THEN st
    ELSE IF rootMode = "unsearchable" THEN [st EXCEPT !.err = TRUE]
    ELSE LET modified == tree[n].mtime
             created == IF hasBirth THEN tree[n].btime ELSE tree[n].mtime
             seen == [st EXCEPT !.modified_date = created]
         IN  IF ~st.found \/ modified > st.time
                THEN [seen EXCEPT !.found = TRUE, !.folder = EntryPath(n),
                                  !.time = modified, !.name = n]
                ELSE seen

\* The folder loop over the entries in the order the filesystem yields them.
RECURSIVE ScanRoot(_, _, _)
ScanRoot(order, i, st) ==
    IF i > Len(order) \/ st.err THEN st
    ELSE ScanRoot(order, i + 1, ScanRootStep(st, order[i]))

\* What read_dir(latest_folder + "/" + platform) finds.
PlatformFolder(folder, p) ==
    IF folder = "" THEN (IF slashDirs THEN EmptyPlat ELSE NoPlat)
    ELSE IF \E n \in Names : EntryPath(n) = folder /\ tree[n].kind = "dir"
        THEN LET n == CHOOSE n \in Names : EntryPath(n) = folder IN
             IF rootMode = "ok" THEN tree[n].plat[p] ELSE PlatDir("unreadable", {})
    ELSE NoPlat

\* Mutant of FormatUrl: the folder name and the platform change places.
FormatUrlSwapped(version, p, file) ==
    kiosk_url \o "/" \o p \o "/" \o version \o "/" \o file

\* The url a payload file gets.
FormatUrl(version, p, file) ==
    kiosk_url \o "/" \o version \o "/" \o p \o "/" \o file

\* One iteration of the loop over a platform folder's entries.
ScanEntryStep(acc, version, p, e) ==
    LET afterSig ==
            IF e.kind = "file" /\ e.ext = "sig"
                THEN IF e.utf8 THEN [acc EXCEPT !.signature = e.text]
                     ELSE [acc EXCEPT !.err = TRUE]
                ELSE acc
    IN  IF afterSig.err THEN afterSig
        ELSE IF e.kind = "file" /\ e.ext # "sig"
            THEN [afterSig EXCEPT !.url = FormatUrl(version, p, FileName(e))]
            ELSE afterSig

\* The loop over a platform folder's entries, in the order they are yielded.
RECURSIVE ScanEntries(_, _, _, _, _)
ScanEntries(order, i, acc, version, p) ==
    IF i > Len(order) \/ acc.err THEN acc
    ELSE ScanEntries(order, i + 1, ScanEntryStep(acc, version, p, order[i]), version, p)

\* The platform entry before its folder is scanned.
PlatformStart(p) == [signature |-> "", url |-> "", name |-> p, err |-> FALSE]

\* The results the scan of one platform can have, over the enumeration orders.
ScanPlatform(folder, version, p) ==
    LET dir == PlatformFolder(folder, p) IN
    IF dir.state # "ok" THEN {[PlatformStart(p) EXCEPT !.err = TRUE]}
    ELSE {ScanEntries(order, 1, PlatformStart(p), version, p) : order \in Perms(dir.entries)}

\* A platform entry of the response.
Details(out) == [signature |-> out.signature, url |-> out.url, name |-> out.name]

\* The value get_latest_version returns after the folder loop ended in st and
\* the platform scans ended in outs (platform -> result).
LatestResult(st, outs) ==
    IF st.err THEN IntoResponse(FromIoError)
    ELSE IF \E p \in Platforms : outs[p].err THEN IntoResponse("Internal")
    ELSE OkResponse([version |-> st.name,
                     notes |-> "ini notes",
                     pub_date |-> Rfc3339(st.modified_date),
                     platforms |-> [p \in Platforms |-> Details(outs[p])]])

\* The platform scans as a function of the platform.
Outs(o1, o2, o3, o4) ==
    [p \in Platforms |->
        CASE p = PlatformOrder[1] -> o1
          [] p = PlatformOrder[2] -> o2
          [] p = PlatformOrder[3] -> o3
          [] p = PlatformOrder[4] -> o4]

NoResponse == [status |-> 0, error |-> "", body |-> NoBody]

\* GET /latest-version: the whole handler, for one enumeration order of the
\* root and of each platform folder.
GetLatestVersion ==
    /\ IF ~RootListable THEN resp' = IntoResponse(FromIoError)
       ELSE \E order \in Perms(Present) :
            LET st == ScanRoot(order, 1, ScanStart) IN
            \E o1 \in ScanPlatform(st.folder, st.name, PlatformOrder[1]) :
            \E o2 \in ScanPlatform(st.folder, st.name, PlatformOrder[2]) :
            \E o3 \in ScanPlatform(st.folder, st.name, PlatformOrder[3]) :
            \E o4 \in ScanPlatform(st.folder, st.name, PlatformOrder[4]) :
                resp' = LatestResult(st, Outs(o1, o2, o3, o4))
    /\ UNCHANGED <<fsVars, reqs>>

-----------------------------------------------------------------------------
(* create_kiosk_version, one action per await point.                         *)

Reqs == {"r1", "r2"}

\* request.version is any string: a name of one path component, or one that
\* reaches into a version folder.
Nested == {"1.0.0/extra"}

ReqNames == Names \cup Nested

\* The entry of KIOSK_DIRECTORY the path kiosk_directory + "/" + v goes through.
TopName(v) == IF v \in Names THEN v ELSE "1.0.0"

\* What kiosk_version_directory denotes: "absent", "dir", "file", or "notdir"
\* when the path goes through a regular file.
PathState(v) ==
    IF v \in Names THEN tree[v].kind
    ELSE CASE tree[TopName(v)].kind = "absent" -> "absent"
           [] tree[TopName(v)].kind = "file" -> "notdir"
           [] OTHER -> tree[TopName(v)].extra.state

\* The platform folders present in the folder kiosk_version_directory.
PathPlatforms(v) ==
    IF v \in Names THEN {p \in Platforms : tree[v].plat[p].state # "absent"}
    ELSE tree[TopName(v)].extra.plats

\* touched: the entries of KIOSK_DIRECTORY the request has changed so far.
Idle == [pc |-> "idle", version |-> "", i |-> 0, result |-> NoResponse, touched |-> {}]

\* The request has returned res.
Returned(q, res) == [q EXCEPT !.pc = "done", !.result = res]

\* fs::try_exists(kiosk_version_directory): "err", or whether the path exists.
TryExists(v) ==
    IF rootMode = "unsearchable" \/ PathState(v) = "notdir" THEN "err"
    ELSE IF PathState(v) # "absent" THEN "yes" ELSE "no"

\* A request for version v arrives; the handler lists KIOSK_DIRECTORY.
CreateStart(r, v) ==
    /\ reqs[r].pc = "idle"
    /\ reqs' = [reqs EXCEPT ![r] =
            IF RootListable THEN [@ EXCEPT !.pc = "exists", !.version = v]
            ELSE Returned([@ EXCEPT !.version = v], IntoResponse(FromIoError))]
    /\ UNCHANGED <<fsVars, resp>>

\* "find folder if exist".
CreateCheck(r) ==
    /\ reqs[r].pc = "exists"
    /\ LET found == TryExists(reqs[r].version) IN
       reqs' = [reqs EXCEPT ![r] =
            CASE found = "err" -> Returned(@, IntoResponse("Internal"))
              [] found = "yes" -> Returned(@, IntoResponse("FolderExist"))
              [] found = "no" -> [@ EXCEPT !.pc = "mkdir"]]
    /\ UNCHANGED <<fsVars, resp>>

\* The tree after create_dir(kiosk_version_directory) succeeded.
MadeDir(v) ==
    IF v \in Names
        THEN [tree EXCEPT ![v] = VersionDir(now, now, [p \in Platforms |-> NoPlat])]
        ELSE [tree EXCEPT ![TopName(v)] =
                [@ EXCEPT !.mtime = now, !.extra = Extra("dir", {})]]

\* The tree after create_dir(kiosk_version_platform_directory) succeeded.
MadePlatform(v, p) ==
    IF v \in Names
        THEN [tree EXCEPT ![v] =
                [@ EXCEPT !.mtime = now, !.plat = [@ EXCEPT ![p] = EmptyPlat]]]
        ELSE [tree EXCEPT ![TopName(v)] =
                [@ EXCEPT !.extra = Extra("dir", @.plats \cup {p})]]

\* The entries of KIOSK_DIRECTORY that differ between the tree and t.
Changed(t) == {n \in Names : t[n] # tree[n]}

\* fs::create_dir(kiosk_version_directory).
CreateDir(r) ==
    /\ reqs[r].pc = "mkdir"
    /\ LET v == reqs[r].version IN
       IF rootMode = "ok" /\ PathState(v) = "absent"
            /\ (v \in Names \/ tree[TopName(v)].kind = "dir")
       THEN /\ tree' = MadeDir(v)
            /\ reqs' = [reqs EXCEPT ![r] =
                    [@ EXCEPT !.pc = "platform", !.i = 1,
                              !.touched = @ \cup Changed(MadeDir(v))]]
       ELSE /\ reqs' = [reqs EXCEPT ![r] = Returned(@, IntoResponse(FromIoError))]
            /\ UNCHANGED tree
    /\ UNCHANGED <<rootMode, hasBirth, slashDirs, now, resp>>

\* fs::create_dir(kiosk_version_platform_directory) for the i-th platform, and
\* Ok(StatusCode::OK) after the last one.
CreatePlatform(r) ==
    /\ reqs[r].pc = "platform"
    /\ LET v == reqs[r].version
           p == CreateOrder[reqs[r].i]
       IN  IF rootMode = "ok" /\ PathState(v) = "dir" /\ p \notin PathPlatforms(v)
           THEN /\ tree' = MadePlatform(v, p)
                /\ reqs' = [reqs EXCEPT ![r] =
                        LET q == [@ EXCEPT !.touched = @ \cup Changed(MadePlatform(v, p))] IN
                        IF reqs[r].i = Len(CreateOrder)
                            THEN Returned(q, OkResponse(NoBody))
                            ELSE [q EXCEPT !.i = @ + 1]]
           ELSE /\ reqs' = [reqs EXCEPT ![r] = Returned(@, IntoResponse(FromIoError))]
                /\ UNCHANGED tree
    /\ UNCHANGED <<rootMode, hasBirth, slashDirs, now, resp>>

\* The filesystem clock advances.
Tick ==
    /\ now < MaxTime
    /\ now' = now + 1
    /\ UNCHANGED <<rootMode, hasBirth, slashDirs, tree, reqs, resp>>

-----------------------------------------------------------------------------
(* Specification of the resolver over the trees the model starts from.      *)

Init ==
    /\ rootMode \in {"ok", "missing", "unreadable", "unsearchable"}
    /\ hasBirth \in BOOLEAN
    /\ tree \in [Names -> InitEntries]
    /\ Cardinality(Present) <= 2
    /\ rootMode = "missing" => Present = {}
    /\ rootMode # "ok" =>
            /\ hasBirth
            /\ \A n \in Names :
                    tree[n] \in {Absent, RootFile(1), VersionDir(1, 1, ShapePlat("complete", 1))}
    /\ slashDirs \in BOOLEAN
    /\ slashDirs => Present = {}
    /\ now = MaxTime
    /\ reqs = [r \in Reqs |-> Idle]
    /\ resp = NoResponse

Next == GetLatestVersion

Spec == Init /\ [][Next]_vars

-----------------------------------------------------------------------------
(* Specification of version creation: two requests, each served once, and   *)
(* get_latest_version called at any moment.                                 *)

CreateEntries ==
    {Absent, RootFile(1), VersionDir(1, 1, ShapePlat("skeleton", 1)),
     VersionDir(1, 1, ShapePlat("complete", 1))}

InitCreate ==
    /\ rootMode \in {"ok", "missing", "unreadable", "unsearchable"}
    /\ hasBirth = TRUE
    /\ slashDirs = FALSE
    /\ tree \in [Names -> CreateEntries]
    /\ Cardinality(Present) <= 1
    /\ rootMode = "missing" => Present = {}
    /\ now = 1
    /\ reqs = [r \in Reqs |-> Idle]
    /\ resp = NoResponse

NextCreate ==
    \/ \E r \in Reqs, v \in ReqNames : CreateStart(r, v)
    \/ \E r \in Reqs : CreateCheck(r)
    \/ \E r \in Reqs : CreateDir(r)
    \/ \E r \in Reqs : CreatePlatform(r)
    \/ Tick
    \/ GetLatestVersion

SpecCreate == InitCreate /\ [][NextCreate]_vars

-----------------------------------------------------------------------------
(* Vocabulary of the properties.                                            *)

\* The semantic version a directory name denotes, <<>> when it denotes none.
SemVer(n) ==
    CASE n = "1.0.0" -> <<1, 0, 0>>
      [] n = "1.1.0" -> <<1, 1, 0>>
      [] OTHER -> <<>>

IsVersionName(n) == SemVer(n) # <<>>

\* Semantic-version precedence: a is higher than b.
Higher(a, b) ==
    LET x == SemVer(a)
        y == SemVer(b)
    IN  \/ x[1] > y[1]
        \/ x[1] = y[1] /\ x[2] > y[2]
        \/ x[1] = y[1] /\ x[2] = y[2] /\ x[3] > y[3]

SigFiles(n, p) == {e \in tree[n].plat[p].entries : e.kind = "file" /\ e.ext = "sig"}

PayloadFiles(n, p) == {e \in tree[n].plat[p].entries : e.kind = "file" /\ e.ext # "sig"}

\* A platform folder is complete: it can be listed and holds a readable
\* signature file and a payload file.
CompletePlatform(n, p) ==
    /\ tree[n].plat[p].state = "ok"
    /\ SigFiles(n, p) # {}
    /\ \A e \in SigFiles(n, p) : e.utf8 /\ e.text # ""
    /\ PayloadFiles(n, p) # {}

\* The version directories complete for all four platforms.
CompleteVersions ==
    {n \in Names : /\ tree[n].kind = "dir"
                   /\ IsVersionName(n)
                   /\ \A p \in Platforms : CompletePlatform(n, p)}

\* get_latest_version has been called and has answered.
Called == resp.status # 0

Succeeded == resp.status = 200

Populated(body) ==
    /\ body.version # ""
    /\ \A p \in Platforms :
            body.platforms[p].signature # "" /\ body.platforms[p].url # ""

Sentinel(body) ==
    /\ body.version = ""
    /\ body.pub_date = "1970-01-01T00:00:00+00:00"
    /\ \A p \in Platforms :
            body.platforms[p].signature = "" /\ body.platforms[p].url = ""

-----------------------------------------------------------------------------
(* Properties.                                                              *)

\* C1: when exactly one version directory is complete, get_latest_version
\* returns that version with all four platform entries populated, whatever
\* other (incomplete) directories stand beside it.
C1_OnlyCompleteVersionReturned ==
    (Called /\ rootMode = "ok" /\ Cardinality(CompleteVersions) = 1) =>
        /\ Succeeded
        /\ resp.body.version \in CompleteVersions
        /\ Populated(resp.body)

\* C2: when two or more version directories are complete, get_latest_version
\* returns the one with the highest semantic version, whatever the folders'
\* modification times are.
C2_HighestCompleteVersionReturned ==
    (Called /\ rootMode = "ok" /\ Cardinality(CompleteVersions) >= 2) =>
        /\ Succeeded
        /\ resp.body.version \in CompleteVersions
        /\ \A n \in CompleteVersions : ~Higher(n, resp.body.version)

\* C3: when no version directory is complete, get_latest_version succeeds
\* with the empty sentinel (version "", epoch publish date, empty entries).
C3_SentinelWhenNothingComplete ==
    (Called /\ rootMode = "ok" /\ CompleteVersions = {}) =>
        Succeeded /\ Sentinel(resp.body)

\* C4: a manifest returned with success is fully populated or is the empty
\* sentinel; it never has a version and an empty signature or url.
C4_NoPartialManifest ==
    Succeeded => (Populated(resp.body) \/ Sentinel(resp.body))

\* The name a payload file of the returned version's platform folder p has.
ReturnedPayloadNames(p) ==
    IF resp.body.version \in Names /\ tree[resp.body.version].kind = "dir"
        THEN {FileName(e) : e \in PayloadFiles(resp.body.version, p)}
        ELSE {}

C6_DescendingVersionOrder ==
    (Succeeded /\ rootMode = "ok" /\ resp.body.version # "") =>
        /\ IsVersionName(resp.body.version)
        /\ \A n \in CompleteVersions : ~Higher(n, resp.body.version)

\* The timestamps of the payload files of version n.
PayloadTimes(n) == UNION {{e.time : e \in PayloadFiles(n, p)} : p \in Platforms}

SetMax(S) == CHOOSE x \in S : \A y \in S : y <= x

\* C7: the publish date of a returned, non-sentinel manifest is the most recent
\* timestamp among the payload files of the returned version.
C7_PublishDateFromPayload ==
    (Succeeded /\ resp.body.version \in Names /\ PayloadTimes(resp.body.version) # {}) =>
        resp.body.pub_date = Rfc3339(SetMax(PayloadTimes(resp.body.version)))

\* C8: a call of get_latest_version that follows another call, with no change
\* of the filesystem in between, gives the same response.
C8_Idempotent ==
    [][(Called /\ UNCHANGED fsVars) => resp' = resp]_vars

\* C9: when KIOSK_DIRECTORY cannot be listed, get_latest_version answers with
\* the internal error (500) and no manifest.
C9_UnlistableRootIsInternalError ==
    (Called /\ ~RootListable) =>
        /\ resp.status = 500
        /\ resp.error = "Internal"
        /\ resp.body = NoBody

\* C9 witness: the call was made on a root that cannot be read.
C9_Witness ==
    Called /\ rootMode = "unreadable" /\ resp.status = 500

\* The step in which request r returns while the path of its version exists.
ReturnsOnExisting(r) ==
    /\ reqs[r].pc \in {"idle", "exists"}
    /\ reqs'[r].pc = "done"
    /\ PathState(reqs'[r].version) \in {"dir", "file"}

\* The FolderExist answer: 422 with a kiosk_version_error body, not Internal.
IsFolderExist(res) ==
    /\ res.status = 422
    /\ res.error = "FolderExist"
    /\ res.body.kind = "kiosk_version_error"
    /\ res # IntoResponse("Internal")

\* C10, as stated: create_kiosk_version for a version whose folder exists
\* returns FolderExist (422) and leaves the tree unchanged.
C10_ExistingFolderRejected ==
    [][\A r \in Reqs :
        ReturnsOnExisting(r) => (IsFolderExist(reqs'[r].result) /\ tree' = tree)]_vars

\* C10, amended: when KIOSK_DIRECTORY can be listed and the existence check
\* succeeds, the request returns FolderExist (422); otherwise it returns
\* Internal (500); the tree is unchanged in both cases.
C10_ExistingFolderRejectedWhenRootOk ==
    [][\A r \in Reqs :
        /\ (reqs[r].pc \in {"idle", "exists"} /\ reqs'[r] # reqs[r]) => tree' = tree
        /\ ReturnsOnExisting(r) =>
                IF rootMode = "ok"
                    THEN IsFolderExist(reqs'[r].result)
                    ELSE reqs'[r].result = IntoResponse("Internal")]_vars

\* C10 witness: a request for an existing folder was answered with 422.
C10_Witness ==
    \E r \in Reqs :
        /\ reqs[r].pc = "done"
        /\ reqs[r].result.status = 422
        /\ PathState(reqs[r].version) \in {"dir", "file"}

\* The request returns success in this step.
ReturnsSuccess(r) ==
    /\ reqs[r].pc # "done"
    /\ reqs'[r].pc = "done"
    /\ reqs'[r].result.status = 200

\* root/v is a folder holding the four platform folders, all empty, and
\* nothing else.
IsSkeleton(v) ==
    /\ PathState(v) = "dir"
    /\ PathPlatforms(v) = {"windows_x86_64", "linux_x86_64", "darwin_x86_64", "darwin_aarch64"}
    /\ v \in Names =>
            /\ \A p \in Platforms : tree[v].plat[p] = EmptyPlat
            /\ tree[v].extra = NoExtra

\* C11: when create_kiosk_version returns success for a version name that had
\* no folder, root/version exists with exactly the four platform subfolders,
\* all empty, and the request has changed no other version's directory.
C11_OnlySkeletonCreated ==
    [][\A r \in Reqs :
        ReturnsSuccess(r) =>
            /\ IsSkeleton(reqs[r].version)'
            /\ reqs'[r].touched \subseteq {reqs[r].version}]_vars

\* Two requests for the same one-component version name have both returned,
\* with KIOSK_DIRECTORY listable and searchable.
BothReturned(a, b) ==
    /\ a # b
    /\ reqs[a].pc = "done"
    /\ reqs[b].pc = "done"
    /\ reqs[a].version = reqs[b].version
    /\ reqs[a].version \in Names
    /\ rootMode = "ok"

\* C12: of two create_kiosk_version requests for the same version name, in any
\* interleaving, at most one returns success, and one that does not succeed
\* receives FolderExist (422), not Internal (500).
C12_LoserGetsFolderExist ==
    \A a, b \in Reqs :
        BothReturned(a, b) =>
            /\ ~(reqs[a].result.status = 200 /\ reqs[b].result.status = 200)
            /\ reqs[a].result.status # 200 => IsFolderExist(reqs[a].result)

====
